---- MODULE Spec2Model ----
(***************************************************************************)
(* Model of colly's declarative HTML decoder (unmarshal.go).               *)
(*                                                                         *)
(* UnmarshalHTML(v, s) walks the fields of the struct v points to, in      *)
(* declaration order, and fills them from the goquery selection s.  The    *)
(* model keeps the Go call stack explicit: one frame per active            *)
(* UnmarshalHTML call, one step per field.                                 *)
(*                                                                         *)
(* Go values are tagged records:                                           *)
(*   string  [k |-> "string", s |-> <<chars>>]                             *)
(*   slice   [k |-> "slice", nil |-> BOOLEAN, elems |-> <<strings>>]       *)
(*   struct  [k |-> "struct", f |-> <<field values>>]                      *)
(*   pointer [k |-> "ptr", nil |-> BOOLEAN, v |-> <<field values>>]        *)
(*   other   [k |-> "other", t |-> type name]                              *)
(* A Go string is a sequence of one-character strings, so that TrimSpace   *)
(* is computed and not assumed.                                            *)
(***************************************************************************)
EXTENDS Integers, Sequences, FiniteSets, TLC

VARIABLES status, stack, err, dest, pre, typ, scope0, target, calls, ev, raised, present, trace, prev

vars == <<status, stack, err, dest, pre, typ, scope0, target, calls, ev, raised, present, trace, prev>>

\* Number of UnmarshalHTML calls the caller makes on one destination.
MaxCalls == 2

\* Depth of the Go call stack at which the run is cut off (stack overflow).
MaxStack == 5

-----------------------------------------------------------------------------
(* The document: a fixed tree, nodes numbered in document order.           *)
(*   1 <div>                                                               *)
(*   2   <p> a </p>                                                        *)
(*   3   <div>                                                             *)
(*   4     <p>b</p>                                                        *)
(*   5     <li class="x">c </li>                                           *)
(*   6   <li>c</li>                                                        *)

Tag == <<"div", "p", "div", "p", "li", "li">>

Parent == <<0, 1, 1, 3, 3, 1>>

OwnText == << <<>>, <<" ", "a", " ">>, <<>>, <<"b">>, <<"c", " ">>, <<"c">> >>

Attrs == << {}, {}, {}, {}, {[name |-> "class", val |-> <<"x">>]}, {} >>

Nodes == 1..Len(Tag)

\* A goquery.Selection: its Nodes slice, which in Go is nil or a (possibly
\* empty) list.
Sel(ns, isNil) == [nodes |-> ns, nil |-> isNil]

RECURSIVE IsDescendant(_, _)
IsDescendant(n, a) ==
    /\ Parent[n] # 0
    /\ (Parent[n] = a \/ IsDescendant(Parent[n], a))

RECURSIVE SeqOfSet(_)
SeqOfSet(S) ==
    IF S = {} THEN <<>>
    ELSE LET m == CHOOSE x \in S : \A y \in S : x <= y
         IN <<m>> \o SeqOfSet(S \ {m})

Range(q) == {q[j] : j \in 1..Len(q)}

\* The descendants of node a that the selector matches, in document order.
\* Selectors are tag names; the empty selector does not compile and matches
\* nothing.
MatchAll(a, selector) ==
    SeqOfSet({n \in Nodes : IsDescendant(n, a) /\ Tag[n] = selector})

RECURSIVE appendWithoutDuplicates(_, _)
appendWithoutDuplicates(result, vals) ==
    IF vals = <<>> THEN result
    ELSE appendWithoutDuplicates(
            IF Head(vals) \in Range(result) THEN result ELSE Append(result, Head(vals)),
            Tail(vals))

RECURSIVE mapNodes(_, _, _)
mapNodes(ns, selector, result) ==
    IF ns = <<>> THEN result
    ELSE mapNodes(Tail(ns), selector,
                  appendWithoutDuplicates(result, MatchAll(Head(ns), selector)))

\* s.Find(selector): the result's Nodes is nil when nothing matches.
Find(s, selector) ==
    LET r == mapNodes(s.nodes, selector, <<>>)
    IN Sel(r, r = <<>>)

\* s.First()
First(s) == IF s.nodes = <<>> THEN Sel(<<>>, TRUE) ELSE Sel(<<Head(s.nodes)>>, FALSE)

RECURSIVE NodeText(_)
RECURSIVE ConcatText(_)
ConcatText(ns) == IF ns = <<>> THEN <<>> ELSE NodeText(Head(ns)) \o ConcatText(Tail(ns))

NodeText(n) == OwnText[n] \o ConcatText(SeqOfSet({c \in Nodes : Parent[c] = n}))

\* s.Text()
Text(s) == ConcatText(s.nodes)

\* s.Attr(name): the first node's attribute, "" when absent or s is empty.
Attr(s, name) ==
    IF s.nodes = <<>> THEN <<>>
    ELSE LET as == {a \in Attrs[Head(s.nodes)] : a.name = name}
         IN IF as = {} THEN <<>> ELSE (CHOOSE a \in as : TRUE).val

RECURSIVE TrimLeft(_)
TrimLeft(t) == IF t # <<>> /\ Head(t) = " " THEN TrimLeft(Tail(t)) ELSE t

RECURSIVE TrimRight(_)
TrimRight(t) ==
    IF t # <<>> /\ t[Len(t)] = " " THEN TrimRight(SubSeq(t, 1, Len(t) - 1)) ELSE t

\* strings.TrimSpace
TrimSpace(t) == TrimRight(TrimLeft(t))

getDOMValue(s, attr) ==
    IF attr = "" THEN TrimSpace(Text(First(s))) ELSE Attr(s, attr)

-----------------------------------------------------------------------------
(* Record types.  A field descriptor is what reflect gives for the field:  *)
(* its name, its Kind, the type name reflect prints for it, its element    *)
(* (ek: the element's Kind, et: the element's struct type), its two tags   *)
(* and whether it is exported.                                             *)

Fld(name, kind, tstr, ek, et, selector, attr, exported) ==
    [name |-> name, kind |-> kind, tstr |-> tstr, ek |-> ek, et |-> et,
     selector |-> selector, attr |-> attr, exported |-> exported]

StringFld(name, selector, attr) ==
    Fld(name, "string", "string", "", "", selector, attr, TRUE)

SliceFld(name, selector, attr) ==
    Fld(name, "slice", "[]string", "string", "", selector, attr, TRUE)

StructFld(name, t, selector) ==
    Fld(name, "struct", t, "struct", t, selector, "", TRUE)

PtrFld(name, t, selector) ==
    Fld(name, "ptr", "*" \o t, "struct", t, selector, "", TRUE)

TypeDefs ==
    [ \* the example of the doc comment
      Nested |-> << StringFld("String", "p", ""),
                    SliceFld("Classes", "li", "class"),
                    PtrFld("Struct", "Nested", "div") >>,
      Leaf   |-> << StringFld("V", "p", ""),
                    SliceFld("L", "li", ""),
                    StringFld("H", "h1", ""),
                    SliceFld("E", "h1", "") >>,
      Wrap   |-> << StructFld("In", "Leaf", ""),
                    PtrFld("Ref", "Leaf", ""),
                    PtrFld("Miss", "Leaf", "h1"),
                    StructFld("Gone", "Leaf", "h1"),
                    StructFld("Sub", "Leaf", "div") >>,
      Bad    |-> << StringFld("A", "p", ""),
                    Fld("N", "int", "int", "", "", "p", "", TRUE),
                    StringFld("B", "p", "") >>,
      Bad2   |-> << StringFld("A", "p", ""),
                    Fld("M", "int", "int", "", "", "p", "", TRUE),
                    StringFld("B", "p", "") >>,
      BadB   |-> << Fld("hidden", "bool", "bool", "", "", "li", "", FALSE),
                    SliceFld("A", "li", ""),
                    Fld("N", "bool", "bool", "", "", "h1", "", TRUE),
                    SliceFld("B", "li", "") >>,
      Priv   |-> << Fld("hidden", "int", "int", "", "", "p", "", FALSE),
                    StringFld("V", "p", ""),
                    Fld("tags", "slice", "[]string", "string", "", "li", "", FALSE),
                    Fld("next", "ptr", "*Leaf", "struct", "Leaf", "", "", FALSE) >>,
      Outer  |-> << StringFld("Pre", "p", ""),
                    StructFld("In", "Bad", "div"),
                    SliceFld("Post", "li", "") >>,
      Top    |-> << SliceFld("X", "li", "class"),
                    PtrFld("O", "Outer", ""),
                    StringFld("Z", "li", "") >>,
      PtrStr |-> << StringFld("S", "p", ""),
                    Fld("P", "ptr", "*string", "string", "", "li", "", TRUE),
                    Fld("Q", "ptr", "*string", "string", "", "h1", "", TRUE),
                    StringFld("T", "p", "") >>,
      IntSl  |-> << StringFld("S", "li", ""),
                    Fld("X", "slice", "[]int", "int", "", "h1", "", TRUE),
                    StringFld("T", "p", "") >>,
      Loop   |-> << StringFld("V", "p", ""),
                    PtrFld("Self", "Loop", "") >> ]

TypeNames == DOMAIN TypeDefs

Fields(t) == TypeDefs[t]

\* The selections a caller passes: the document root, inner nodes, a leaf,
\* overlapping nodes, and the two empty selections of Go (Nodes nil, as
\* Find returns; Nodes empty but not nil, as s.Slice(0, 0) returns).
RootScopes ==
    { Sel(<<1>>, FALSE), Sel(<<3>>, FALSE), Sel(<<6>>, FALSE), Sel(<<1, 3>>, FALSE),
      Sel(<<>>, TRUE), Sel(<<>>, FALSE) }

\* What the caller passes as v: reflect's Kind of it, whether it is nil, and
\* the Kind of what it points to.
Target(kind, isNil, elem) == [kind |-> kind, nil |-> isNil, elem |-> elem]

Targets ==
    { Target("invalid", TRUE, ""),          \* nil interface
      Target("ptr", TRUE, "struct"),        \* (*T)(nil)
      Target("struct", FALSE, ""),          \* T passed by value
      Target("ptr", FALSE, "string"),       \* *string
      Target("ptr", FALSE, "slice"),        \* *[]string
      Target("ptr", FALSE, "struct") }      \* *T

-----------------------------------------------------------------------------
(* Go values.                                                              *)

StrV(t) == [k |-> "string", s |-> t]

SliceV(isNil, elems) == [k |-> "slice", nil |-> isNil, elems |-> elems]

StructV(rec) == [k |-> "struct", f |-> rec]

PtrV(rec) == [k |-> "ptr", nil |-> FALSE, v |-> rec]

NilPtr == [k |-> "ptr", nil |-> TRUE, v |-> <<>>]

OtherV(t) == [k |-> "other", t |-> t]

NoVal == [k |-> "none"]

RECURSIVE ZeroRec(_)
ZeroOf(f) ==
    CASE f.kind = "string" -> StrV(<<>>)
      [] f.kind = "slice"  -> SliceV(TRUE, <<>>)
      [] f.kind = "struct" -> StructV(ZeroRec(f.et))
      [] f.kind = "ptr"    -> NilPtr
      [] OTHER             -> OtherV(f.tstr)

\* reflect.New(t): a fresh zero struct.
ZeroRec(t) == [j \in 1..Len(Fields(t)) |-> ZeroOf(Fields(t)[j])]

-----------------------------------------------------------------------------
(* Errors: errors.New(msg); msg is kept as the list of the concatenated    *)
(* parts.                                                                  *)

NoErr == [msg |-> <<>>]

ErrInvalidTarget == [msg |-> <<"Invalid type or nil-pointer">>]

ErrInvalidSlice == [msg |-> <<"Invalid slice type">>]

\* reflect.Value.String() of a value that is not a string: "<T Value>".
ValueString(f) == <<"<", f.tstr, " Value>">>

\* The error with the field's name in place of the value's description.
ErrInvalidType_Named(f) == [msg |-> <<"Invalid type: ", f.name>>]

ErrInvalidType(f) == [msg |-> <<"Invalid type: ">> \o ValueString(f)]

-----------------------------------------------------------------------------
(* The state.                                                              *)
(*   status   "idle", "running", then how the call ended: "ok" (nil        *)
(*            returned), "err" (err returned), "panic" (reflect panicked), *)
(*            "overflow" (the recursion exhausted the stack)               *)
(*   stack    the active UnmarshalHTML calls, outermost first; a frame     *)
(*            holds the struct type, the selection s, the struct being     *)
(*            filled, the loop index i and the path of field indexes       *)
(*            leading to it                                                *)
(*   err      the error being returned up the stack                        *)
(*   dest     the caller's struct                                          *)
(* History: pre (dest before the call), typ, scope0, target (the call's    *)
(* arguments), calls, ev (the last step), raised (where err was created),  *)
(* present (paths of the struct and pointer fields whose narrowed           *)
(* selection was not nil), trace (the fields                               *)
(* unmarshalAttr was called for), prev (how the previous call ended).      *)

Frame(t, s, rec, i, path) == [type |-> t, s |-> s, rec |-> rec, i |-> i, path |-> path]

TopFrame == stack[Len(stack)]

CurField == Fields(TopFrame.type)[TopFrame.i]

InLoop ==
    /\ status = "running"
    /\ err = NoErr
    /\ TopFrame.i <= Len(Fields(TopFrame.type))

Event(op, fr, before, after, newS, vals, child) ==
    [op |-> op, type |-> fr.type, idx |-> fr.i, path |-> fr.path, s |-> fr.s,
     before |-> before, after |-> after, newS |-> newS, vals |-> vals, child |-> child]

NoEvent ==
    [op |-> "none", type |-> "", idx |-> 0, path |-> <<>>, s |-> Sel(<<>>, TRUE),
     before |-> NoVal, after |-> NoVal, newS |-> Sel(<<>>, TRUE), vals |-> <<>>,
     child |-> <<>>]

NoRaise == [set |-> FALSE, type |-> "", idx |-> 0, path |-> <<>>, e |-> NoErr]

NoPrev ==
    [set |-> FALSE, status |-> "idle", err |-> NoErr, scope |-> Sel(<<>>, TRUE),
     present |-> {}, fresh |-> FALSE, target |-> [kind |-> "invalid", nil |-> TRUE, elem |-> ""]]

NoTarget == Target("invalid", TRUE, "")

Init ==
    /\ status = "idle"
    /\ stack = <<>>
    /\ err = NoErr
    /\ dest = <<>>
    /\ pre = <<>>
    /\ typ = ""
    /\ scope0 = Sel(<<>>, TRUE)
    /\ target = NoTarget
    /\ calls = 0
    /\ ev = NoEvent
    /\ raised = NoRaise
    /\ present = {}
    /\ trace = <<>>
    /\ prev = NoPrev

\* The stack with the top frame's current field set to val and its loop
\* index advanced.
Assigned(val) ==
    [stack EXCEPT ![Len(stack)] =
        [@ EXCEPT !.rec = [@ EXCEPT ![TopFrame.i] = val], !.i = @ + 1]]

\* The outermost frame's struct is the caller's: a change to it is a change
\* to dest.
DestOf(stk) == IF stk = <<>> THEN dest ELSE stk[1].rec

Step(stk, e) ==
    /\ stack' = stk
    /\ dest' = DestOf(stk)
    /\ ev' = e
    /\ UNCHANGED <<status, pre, typ, scope0, target, calls, prev>>

\* unmarshal.go:35
validTarget(v) == v.kind = "ptr" /\ ~v.nil

\* UnmarshalHTML, lines 33-42: the checks before the loop.  sv.NumField()
\* panics when v points to something that is not a struct.
Call(v, t, s, reuse) ==
    /\ status \in {"idle", "ok", "err"}
    /\ calls < MaxCalls
    /\ IF calls = 0 THEN ~reuse ELSE t = typ
    /\ LET d == IF reuse THEN dest ELSE ZeroRec(t)
       IN /\ pre' = d
          /\ dest' = d
          /\ IF ~validTarget(v)
                THEN /\ status' = "err"
                     /\ err' = ErrInvalidTarget
                     /\ stack' = <<>>
             ELSE IF v.elem # "struct"
                THEN /\ status' = "panic"
                     /\ err' = NoErr
                     /\ stack' = <<>>
             ELSE /\ status' = "running"
                  /\ err' = NoErr
                  /\ stack' = <<Frame(t, s, d, 1, <<>>)>>
    /\ typ' = t
    /\ scope0' = s
    /\ target' = v
    /\ calls' = calls + 1
    /\ ev' = [NoEvent EXCEPT !.op = "call"]
    /\ raised' = NoRaise
    /\ present' = {}
    /\ trace' = <<>>
    /\ prev' = IF calls = 0 THEN NoPrev
               ELSE [set |-> TRUE, status |-> status, err |-> err, scope |-> scope0,
                     present |-> present, fresh |-> pre = ZeroRec(typ),
                     target |-> target]

\* Every field is taken as settable.
CanSet_All(f) == TRUE

\* unmarshal.go:44: unexported fields cannot be set.
CanSet(f) == f.exported

Visit == Append(trace, [path |-> TopFrame.path, idx |-> TopFrame.i])

\* UnmarshalHTML, lines 44-46: continue.
SkipField ==
    /\ InLoop
    /\ ~CanSet(CurField)
    /\ Step([stack EXCEPT ![Len(stack)] = [@ EXCEPT !.i = @ + 1]],
            Event("skip", TopFrame, TopFrame.rec[TopFrame.i], TopFrame.rec[TopFrame.i],
                  Sel(<<>>, TRUE), <<>>, <<>>))
    /\ UNCHANGED <<err, raised, present, trace>>

\* unmarshalAttr, case reflect.String (lines 63-65).
unmarshalString ==
    /\ InLoop
    /\ CanSet(CurField)
    /\ CurField.kind = "string"
    /\ LET found == Find(TopFrame.s, CurField.selector)
           val == getDOMValue(found, CurField.attr)
       IN Step(Assigned(StrV(val)),
               Event("string", TopFrame, TopFrame.rec[TopFrame.i], StrV(val),
                     found, <<val>>, <<>>))
    /\ trace' = Visit
    /\ UNCHANGED <<err, raised, present>>

\* The slice is made anew on every call.
sliceInit_Always(v) == SliceV(FALSE, <<>>)

\* The slice is never made.
sliceInit_Never(v) == v

\* unmarshalSlice, lines 119-122: a nil slice is replaced by an empty one.
sliceInit(v) == IF v.nil THEN SliceV(FALSE, <<>>) ELSE v

\* The callback of Each (lines 126-127), once per node, in order.
RECURSIVE eachValue(_, _)
eachValue(ns, attr) ==
    IF ns = <<>> THEN <<>>
    ELSE <<getDOMValue(Sel(<<Head(ns)>>, FALSE), attr)>> \o eachValue(Tail(ns), attr)

\* reflect.Append, once per value (line 127).
appendEach(v, vals) == IF vals = <<>> THEN v ELSE SliceV(FALSE, v.elems \o vals)

\* unmarshalAttr, case reflect.Slice (lines 59-62) and unmarshalSlice.
unmarshalSlice ==
    /\ InLoop
    /\ CanSet(CurField)
    /\ CurField.kind = "slice"
    /\ LET before == TopFrame.rec[TopFrame.i]
           v == sliceInit(before)
           found == Find(TopFrame.s, CurField.selector)
           vals == eachValue(found.nodes, CurField.attr)
       IN IF CurField.ek = "string"
             THEN /\ Step(Assigned(appendEach(v, vals)),
                          Event("slice", TopFrame, before, appendEach(v, vals),
                                found, vals, <<>>))
                  /\ UNCHANGED <<err, raised>>
          ELSE /\ Step([stack EXCEPT ![Len(stack)] =
                            [@ EXCEPT !.rec = [@ EXCEPT ![TopFrame.i] = v]]],
                       Event("slice", TopFrame, before, v, Sel(<<>>, TRUE), <<>>, <<>>))
               /\ err' = ErrInvalidSlice
               /\ raised' = [set |-> TRUE, type |-> TopFrame.type, idx |-> TopFrame.i,
                             path |-> TopFrame.path, e |-> ErrInvalidSlice]
    /\ trace' = Visit
    /\ UNCHANGED present

\* unmarshalStruct, unmarshalPtr: lines 81-84 and 98-101.
narrow(s, selector) == IF selector # "" THEN Find(s, selector) ELSE s

\* unmarshalStruct, lines 85-88: what the code does with the narrowed
\* selection.
structAction(newS, f) == IF newS.nil THEN "skip" ELSE "decode"

\* The target's kind is checked before the selection.
ptrAction_KindFirst(newS, f) ==
    IF f.ek # "struct" THEN "fail"
    ELSE IF newS.nil THEN "skip"
    ELSE "decode"

\* unmarshalPtr, lines 102-109.
ptrAction(newS, f) ==
    IF newS.nil THEN "skip"
    ELSE IF f.ek # "struct" THEN "fail"
    ELSE "decode"

\* The recursive call UnmarshalHTML(v.Interface(), newS) on a fresh struct
\* (lines 88-89, 109-110); the run is cut off at MaxStack frames.
Recurse(op, newS) ==
    IF Len(stack) >= MaxStack
       THEN /\ status' = "overflow"
            /\ ev' = Event(op, TopFrame, TopFrame.rec[TopFrame.i], TopFrame.rec[TopFrame.i],
                           newS, <<>>, <<>>)
            /\ present' = present \cup {Append(TopFrame.path, TopFrame.i)}
            /\ UNCHANGED <<stack, dest, pre, typ, scope0, target, calls, prev>>
    ELSE /\ Step(Append(stack, Frame(CurField.et, newS, ZeroRec(CurField.et), 1,
                                     Append(TopFrame.path, TopFrame.i))),
                 Event(op, TopFrame, TopFrame.rec[TopFrame.i], TopFrame.rec[TopFrame.i],
                       newS, <<>>, <<>>))
         /\ present' = present \cup {Append(TopFrame.path, TopFrame.i)}

\* The field is left alone and the loop goes on (lines 86, 103).
LeaveField(op, newS) ==
    /\ Step([stack EXCEPT ![Len(stack)] = [@ EXCEPT !.i = @ + 1]],
            Event(op, TopFrame, TopFrame.rec[TopFrame.i], TopFrame.rec[TopFrame.i],
                  newS, <<>>, <<>>))
    /\ UNCHANGED present

\* unmarshalAttr, case reflect.Struct (lines 66-69) and unmarshalStruct up to
\* the recursive call.
unmarshalStruct ==
    /\ InLoop
    /\ CanSet(CurField)
    /\ CurField.kind = "struct"
    /\ LET newS == narrow(TopFrame.s, CurField.selector)
       IN IF structAction(newS, CurField) = "skip"
             THEN LeaveField("struct", newS)
          ELSE Recurse("struct", newS)
    /\ trace' = Visit
    /\ UNCHANGED <<err, raised>>

\* unmarshalAttr, case reflect.Ptr (lines 70-73) and unmarshalPtr up to the
\* recursive call.
unmarshalPtr ==
    /\ InLoop
    /\ CanSet(CurField)
    /\ CurField.kind = "ptr"
    /\ LET newS == narrow(TopFrame.s, CurField.selector)
           act == ptrAction(newS, CurField)
       IN IF act = "skip"
             THEN LeaveField("ptr", newS) /\ UNCHANGED <<err, raised>>
          ELSE IF act = "fail"
             THEN /\ Step(stack, Event("ptr", TopFrame, TopFrame.rec[TopFrame.i],
                                       TopFrame.rec[TopFrame.i], newS, <<>>, <<>>))
                  /\ err' = ErrInvalidSlice
                  /\ raised' = [set |-> TRUE, type |-> TopFrame.type, idx |-> TopFrame.i,
                                path |-> TopFrame.path, e |-> ErrInvalidSlice]
                  /\ present' = present \cup {Append(TopFrame.path, TopFrame.i)}
          ELSE Recurse("ptr", newS) /\ UNCHANGED <<err, raised>>
    /\ trace' = Visit

\* unmarshalAttr, default (lines 74-75).
unmarshalDefault ==
    /\ InLoop
    /\ CanSet(CurField)
    /\ CurField.kind \notin {"string", "slice", "struct", "ptr"}
    /\ Step(stack, Event("default", TopFrame, TopFrame.rec[TopFrame.i],
                         TopFrame.rec[TopFrame.i], Sel(<<>>, TRUE), <<>>, <<>>))
    /\ err' = ErrInvalidType(CurField)
    /\ raised' = [set |-> TRUE, type |-> TopFrame.type, idx |-> TopFrame.i,
                  path |-> TopFrame.path, e |-> ErrInvalidType(CurField)]
    /\ trace' = Visit
    /\ UNCHANGED present

\* attrV.Set(reflect.Indirect(v)) (line 93) and attrV.Set(v) (line 114).
attach(f, rec) == IF f.kind = "struct" THEN StructV(rec) ELSE PtrV(rec)

\* UnmarshalHTML returns nil (line 51).  In a nested call the caller,
\* unmarshalStruct or unmarshalPtr, then sets the field (lines 93, 114).
Return ==
    /\ status = "running"
    /\ err = NoErr
    /\ TopFrame.i > Len(Fields(TopFrame.type))
    /\ IF Len(stack) = 1
          THEN /\ status' = "ok"
               /\ stack' = <<>>
               /\ dest' = TopFrame.rec
               /\ ev' = Event("return", TopFrame, NoVal, NoVal, Sel(<<>>, TRUE), <<>>,
                              TopFrame.rec)
               /\ UNCHANGED <<pre, typ, scope0, target, calls, prev>>
       ELSE LET parent == stack[Len(stack) - 1]
                f == Fields(parent.type)[parent.i]
                val == attach(f, TopFrame.rec)
                stk == [SubSeq(stack, 1, Len(stack) - 1) EXCEPT ![Len(stack) - 1] =
                           [@ EXCEPT !.rec = [@ EXCEPT ![parent.i] = val], !.i = @ + 1]]
            IN Step(stk, Event("return", parent, parent.rec[parent.i], val,
                               TopFrame.s, <<>>, TopFrame.rec))
    /\ UNCHANGED <<err, raised, present, trace>>

\* The error is wrapped on its way up.
returned_Wrapped(e) == [msg |-> <<"nested: ">> \o e.msg]

\* The error a caller returns for the error it got (lines 48, 61, 68, 72, 91,
\* 112): the same error.
returned(e) == e

\* The field is set before the error is looked at.
dropped_Partial(before, f, rec) == attach(f, rec)

\* What is left of the field of the caller when the nested call failed
\* (lines 90-92, 111-113): the fresh struct is dropped.
dropped(before, f, rec) == before

\* UnmarshalHTML returns err (line 48), and so do its callers.
ReturnErr ==
    /\ status = "running"
    /\ err # NoErr
    /\ err' = returned(err)
    /\ IF Len(stack) = 1
          THEN /\ status' = "err"
               /\ stack' = <<>>
               /\ dest' = TopFrame.rec
               /\ ev' = Event("returnErr", TopFrame, NoVal, NoVal, Sel(<<>>, TRUE), <<>>,
                              TopFrame.rec)
               /\ UNCHANGED <<pre, typ, scope0, target, calls, prev>>
       ELSE LET parent == stack[Len(stack) - 1]
                f == Fields(parent.type)[parent.i]
                val == dropped(parent.rec[parent.i], f, TopFrame.rec)
                stk == [SubSeq(stack, 1, Len(stack) - 1) EXCEPT ![Len(stack) - 1] =
                           [@ EXCEPT !.rec = [@ EXCEPT ![parent.i] = val]]]
            IN Step(stk, Event("returnErr", parent, parent.rec[parent.i], val,
                               TopFrame.s, <<>>, TopFrame.rec))
    /\ UNCHANGED <<raised, present, trace>>

Next ==
    \/ \E v \in Targets, t \in TypeNames, s \in RootScopes, reuse \in BOOLEAN :
          Call(v, t, s, reuse)
    \/ SkipField
    \/ unmarshalString
    \/ unmarshalSlice
    \/ unmarshalStruct
    \/ unmarshalPtr
    \/ unmarshalDefault
    \/ Return
    \/ ReturnErr

Spec == Init /\ [][Next]_vars

-----------------------------------------------------------------------------
(* Properties.                                                             *)

\* v is a non-nil pointer to a struct.
PointsToStruct(v) == v.kind = "ptr" /\ ~v.nil /\ v.elem = "struct"

\* The field the last step was about.
EvField == Fields(ev.type)[ev.idx]

\* C1: UnmarshalHTML returns the invalid-target error when v is nil, is not a
\* pointer, or points to something that is not a struct; it neither panics
\* nor returns nil.
C1_InvalidTargetRejected ==
    (calls > 0 /\ ~PointsToStruct(target)) =>
        (status = "err" /\ err = ErrInvalidTarget)

\* C8: every call returns after a bounded number of recursive calls: the
\* stack is never exhausted, and no call is made from inside a call with the
\* same struct type and the same selection (such a call repeats itself
\* without end).
C8_BoundedRecursion ==
    (scope0.nodes # <<>>) =>
        /\ status # "overflow"
        /\ \A a, b \in 1..Len(stack) :
              (a < b) => ~(stack[a].type = stack[b].type /\ stack[a].s = stack[b].s)

\* C6 as stated: the error for a field of an unsupported kind carries the
\* field's name.
C6_ErrorNamesField ==
    (ev.op = "default") => (EvField.name \in Range(err.msg))

\* C6, amended: the error for a field of an unsupported kind is
\* "Invalid type: <T Value>" with T the field's type; it does not carry the
\* field's name, so fields of the same type in different structs, whatever
\* their names, get the same error, and the caller gets exactly that error.
C6_ErrorNamesType ==
    /\ (ev.op = "default") =>
          /\ err.msg = <<"Invalid type: ", "<", EvField.tstr, " Value>">>
          /\ EvField.name \notin Range(err.msg)
          /\ \A t \in TypeNames : \A j \in 1..Len(Fields(t)) :
                (Fields(t)[j].tstr = EvField.tstr) => (ErrInvalidType(Fields(t)[j]) = err)
    /\ (status = "err" /\ raised.set /\ Fields(raised.type)[raised.idx].kind \in {"int", "bool"}) =>
          err.msg = <<"Invalid type: ", "<", Fields(raised.type)[raised.idx].tstr, " Value>">>

\* A struct with an int field N failed, and Bad2 differs from Bad only in
\* that field's name.
C6_Witness ==
    /\ status = "err"
    /\ typ = "Bad"
    /\ raised.set
    /\ Fields(raised.type)[raised.idx].name = "N"
    /\ Fields("Bad2")[raised.idx].name = "M"
    /\ ErrInvalidType(Fields("Bad2")[raised.idx]) = err

-----------------------------------------------------------------------------
(* What the properties expect of a decode, stated field by field and       *)
(* without the loop: the nodes a selector matches under a selection, the   *)
(* value read from a node, and the struct a successful decode leaves.      *)

ExpectedNodes(s, selector) ==
    SeqOfSet({n \in Nodes : Tag[n] = selector /\ \E a \in Range(s.nodes) : IsDescendant(n, a)})

ExpectedValue(n, attr) ==
    IF attr = "" THEN TrimSpace(NodeText(n))
    ELSE IF \E a \in Attrs[n] : a.name = attr
            THEN (CHOOSE a \in Attrs[n] : a.name = attr).val
    ELSE <<>>

ExpectedValues(s, f) ==
    LET ns == ExpectedNodes(s, f.selector)
    IN [j \in 1..Len(ns) |-> ExpectedValue(ns[j], f.attr)]

\* The selection a nested field is decoded against.
SearchScope(s, f) ==
    IF f.selector = "" THEN s
    ELSE Sel(ExpectedNodes(s, f.selector), ExpectedNodes(s, f.selector) = <<>>)

RECURSIVE ExpectedRec(_, _, _)
ExpectedField(f, s, before) ==
    IF ~f.exported THEN before
    ELSE CASE f.kind = "string" ->
                 StrV(IF ExpectedNodes(s, f.selector) = <<>> THEN <<>>
                      ELSE ExpectedValue(Head(ExpectedNodes(s, f.selector)), f.attr))
           [] f.kind = "slice" ->
                 SliceV(FALSE, before.elems \o ExpectedValues(s, f))
           [] f.kind \in {"struct", "ptr"} ->
                 IF SearchScope(s, f).nil THEN before
                 ELSE attach(f, ExpectedRec(f.et, SearchScope(s, f), ZeroRec(f.et)))
           [] OTHER -> before

ExpectedRec(t, s, rec) ==
    [j \in 1..Len(Fields(t)) |-> ExpectedField(Fields(t)[j], s, rec[j])]

\* The struct type reached from t along a path of field indexes.
RECURSIVE TypeAt(_, _)
TypeAt(t, path) ==
    IF path = <<>> THEN t ELSE TypeAt(Fields(t)[Head(path)].et, Tail(path))

Supported(f) == f.kind \in {"string", "slice", "struct", "ptr"}

Ended == status \in {"ok", "err"}

\* The call decoded a struct (v was a non-nil pointer to one).
Decoding == calls > 0 /\ PointsToStruct(target)

\* The index, in the caller's struct, of the field under which err was
\* created.
FailPos == IF raised.path = <<>> THEN raised.idx ELSE Head(raised.path)

\* C5: for a struct or pointer-to-struct field, when the search selection has
\* no node nothing is allocated, the field is left as it was and the loop
\* goes on without error; when it has a node a fresh struct is decoded
\* against the search selection and, the decode done, assigned to the field.
C5_NestedBySearchScope ==
    /\ (status = "running" /\ ev.op = "return") =>
          ev.after = attach(EvField, ExpectedRec(EvField.et, ev.newS, ZeroRec(EvField.et)))
    /\ (status = "running" /\ ev.op \in {"struct", "ptr"} /\ EvField.ek = "struct") =>
        IF ev.newS.nodes = <<>>
           THEN /\ err = NoErr
                /\ Len(stack) = Len(ev.path) + 1
                /\ TopFrame.i = ev.idx + 1
                /\ TopFrame.rec[ev.idx] = ev.before
        ELSE /\ err = NoErr
             /\ Len(stack) = Len(ev.path) + 2
             /\ TopFrame.type = EvField.et
             /\ TopFrame.s = ev.newS
             /\ TopFrame.rec = ZeroRec(EvField.et)

\* C2 as stated: two calls on fresh structs of one type, with any two
\* selections, end the same way: both return nil or both the same error.
C2_OutcomeByTypeAlone ==
    (/\ Ended /\ Decoding /\ pre = ZeroRec(typ)
     /\ prev.set /\ PointsToStruct(prev.target) /\ prev.fresh) =>
        (status = prev.status /\ err = prev.err)

\* C2, amended: the outcome is determined by the struct type together with
\* the set of struct and pointer fields, at any depth, whose narrowed
\* selection is not nil.  A pointer field whose target is not a struct fails
\* exactly when its narrowed selection is not nil, and an unsupported field
\* of a nested struct fails only when that struct's narrowed selection is
\* not nil; when the selection is nil both go unnoticed and the call returns
\* nil.
C2_OutcomeByTypeAndPresence ==
    /\ (/\ Ended /\ Decoding /\ pre = ZeroRec(typ)
        /\ prev.set /\ PointsToStruct(prev.target) /\ prev.fresh
        /\ present = prev.present) =>
           (status = prev.status /\ err = prev.err)
    /\ (ev.op = "ptr" /\ EvField.ek # "struct") =>
           /\ (err # NoErr) <=> ~ev.newS.nil
           /\ (EvField.selector # "") =>
                 ((err # NoErr) <=> (ExpectedNodes(ev.s, EvField.selector) # <<>>))
    /\ (raised.set /\ raised.path # <<>>) => raised.path \in present
    /\ (status = "ok") =>
           \A path \in present : \A j \in 1..Len(Fields(TypeAt(typ, path))) :
              LET f == Fields(TypeAt(typ, path))[j]
              IN f.exported => Supported(f)

\* A struct whose pointer field targets a string was decoded twice, each
\* time into a fresh struct: the call failed on one selection and returned
\* nil on the other.
C2_Witness ==
    /\ status = "ok"
    /\ typ = "PtrStr"
    /\ pre = ZeroRec(typ)
    /\ prev.set
    /\ prev.fresh
    /\ prev.status = "err"
    /\ prev.err = ErrInvalidSlice
    /\ scope0.nodes # <<>>

\* C3: a []string field ends as what it held followed by one value per
\* matched node, in document order, duplicates kept; a nil field ends with as
\* many elements as there are matched nodes; a non-nil field keeps its
\* elements as a prefix.
C3_SliceAppended ==
    /\ (ev.op = "slice" /\ EvField.ek = "string") =>
          /\ ev.after = SliceV(FALSE, ev.before.elems \o ExpectedValues(ev.s, EvField))
          /\ ev.before.nil =>
                Len(ev.after.elems) = Len(ExpectedNodes(ev.s, EvField.selector))
          /\ SubSeq(ev.after.elems, 1, Len(ev.before.elems)) = ev.before.elems
    /\ (status = "ok" /\ Decoding) =>
          \A j \in 1..Len(Fields(typ)) :
             LET f == Fields(typ)[j]
             IN (f.kind = "slice" /\ f.ek = "string" /\ f.exported) =>
                   dest[j] = SliceV(FALSE, pre[j].elems \o ExpectedValues(scope0, f))

\* A second decode of the same struct appended two equal values to a field
\* that already held elements.
C3_Witness ==
    /\ status = "ok"
    /\ typ = "Leaf"
    /\ pre[2].elems # <<>>
    /\ Len(dest[2].elems) = Len(pre[2].elems) + 2
    /\ dest[2].elems[Len(dest[2].elems)] = dest[2].elems[Len(dest[2].elems) - 1]

\* The field's selector matches no node under s.
Unmatched(s, f) == ExpectedNodes(s, f.selector) = <<>>

\* C4 as stated: decoding into a fresh struct leaves every field whose
\* selector matches no node as it was: "" for a string, nil for a slice, nil
\* for a pointer, the zero struct for a struct.
C4_UnmatchedUntouched ==
    (status = "ok" /\ Decoding /\ pre = ZeroRec(typ)) =>
        \A j \in 1..Len(Fields(typ)) :
           LET f == Fields(typ)[j]
           IN (f.exported /\ Supported(f) /\ f.selector # "" /\ Unmatched(scope0, f)) =>
                 dest[j] = pre[j]

\* C4, amended: for a field whose selector matches no node, a string field
\* is set to "" (whatever it held), a []string field keeps its elements and,
\* when it was nil, becomes an empty non-nil slice, and a struct or pointer
\* field with a non-empty selector is left as it was, nothing being decoded
\* for it and no error raised.
C4_UnmatchedEffect ==
    /\ (ev.op = "string" /\ Unmatched(ev.s, EvField)) => ev.after = StrV(<<>>)
    /\ (ev.op = "slice" /\ EvField.ek = "string" /\ Unmatched(ev.s, EvField)) =>
          ev.after = SliceV(FALSE, ev.before.elems)
    /\ (ev.op \in {"struct", "ptr"} /\ EvField.selector # "" /\ Unmatched(ev.s, EvField)) =>
          /\ status = "running"
          /\ err = NoErr
          /\ Len(stack) = Len(ev.path) + 1
          /\ TopFrame.i = ev.idx + 1
          /\ TopFrame.rec[ev.idx] = ev.before
    /\ (status = "ok" /\ Decoding) =>
          \A j \in 1..Len(Fields(typ)) :
             LET f == Fields(typ)[j]
             IN (f.exported /\ Supported(f) /\ f.selector # "" /\ Unmatched(scope0, f)) =>
                   dest[j] = CASE f.kind = "string" -> StrV(<<>>)
                               [] f.kind = "slice" -> SliceV(FALSE, pre[j].elems)
                               [] OTHER -> pre[j]

\* A second decode, of a struct whose string field held text and whose slice
\* fields held elements or were nil, against a selection where no selector
\* matches: the string is now "", the slices kept their elements and are not
\* nil.
C4_Witness ==
    /\ status = "ok"
    /\ typ = "Leaf"
    /\ \A j \in 1..Len(Fields(typ)) : Unmatched(scope0, Fields(typ)[j])
    /\ pre[1].s # <<>>
    /\ dest[1].s = <<>>
    /\ pre[2].elems # <<>>
    /\ dest[2] = pre[2]
    /\ ~dest[4].nil

\* The fields unmarshalAttr was called for in the struct at path, in the
\* order of the calls.
VisitedAt(path) ==
    LET at == SelectSeq(trace, LAMBDA x : x.path = path)
    IN [j \in 1..Len(at) |-> at[j].idx]

\* The exported fields of t up to index k, in declaration order.
SettableUpTo(t, k) == SeqOfSet({j \in 1..Len(Fields(t)) : j <= k /\ Fields(t)[j].exported})

\* C7: fields are processed in declaration order and the call stops at the
\* first failing field: when the error comes from field k, the exported
\* fields before k hold their decoded values and the fields after k hold
\* what they held before the call; unexported fields are skipped without
\* error and never modified, whatever their kind.
C7_DeclarationOrderStopAtFirst ==
    /\ Decoding =>
          /\ \A j \in 1..Len(Fields(typ)) : ~Fields(typ)[j].exported => dest[j] = pre[j]
          /\ \A x \in Range(trace) : Fields(TypeAt(typ, x.path))[x.idx].exported
          /\ raised.set => Fields(raised.type)[raised.idx].exported
    /\ (status = "running") =>
          \A d \in 1..Len(stack) :
             VisitedAt(stack[d].path) =
                SettableUpTo(stack[d].type,
                             IF d = Len(stack) /\ err = NoErr
                                THEN stack[d].i - 1 ELSE stack[d].i)
    /\ (status = "ok" /\ Decoding) =>
          /\ VisitedAt(<<>>) = SettableUpTo(typ, Len(Fields(typ)))
          /\ dest = ExpectedRec(typ, scope0, pre)
    /\ (status = "err" /\ Decoding) =>
          /\ raised.set
          /\ VisitedAt(<<>>) = SettableUpTo(typ, FailPos)
          /\ \A j \in 1..Len(Fields(typ)) :
                /\ (j < FailPos) => dest[j] = ExpectedField(Fields(typ)[j], scope0, pre[j])
                /\ (j > FailPos) => dest[j] = pre[j]

\* A call failed on its third field, a bool, on a struct decoded before: the
\* unexported bool before it was passed over, the second field holds the
\* values decoded by this call after those it held, the fourth what it held.
C7_Witness ==
    /\ status = "err"
    /\ typ = "BadB"
    /\ FailPos = 3
    /\ ~Fields(typ)[1].exported
    /\ dest[1] = pre[1]
    /\ pre[2].elems # <<>>
    /\ Len(dest[2].elems) > Len(pre[2].elems)
    /\ dest[4] = pre[4]

\* C9: an error created while decoding a nested struct, at any depth, is what
\* the outermost call returns, unchanged, and while it is being returned no
\* enclosing call moves on to a later field.
C9_NestedErrorUnchanged ==
    (Decoding /\ raised.set /\ raised.path # <<>>) =>
        /\ err = raised.e
        /\ status \in {"running", "err"}
        /\ trace[Len(trace)] = [path |-> raised.path, idx |-> raised.idx]
        /\ \A d \in 1..Len(stack) :
              stack[d].i = Append(raised.path, raised.idx)[d]
        /\ (status = "err") =>
              \A j \in 1..Len(Fields(typ)) : (j > FailPos) => dest[j] = pre[j]

\* The caller got the error of a field two structs down.
C9_Witness ==
    /\ status = "err"
    /\ raised.set
    /\ Len(raised.path) = 2
    /\ err = raised.e
    /\ err = ErrInvalidType(Fields(raised.type)[raised.idx])

\* C10: when the nested call fails, the field it was made for is left as it
\* was, for struct and pointer fields alike; the partly filled fresh struct
\* is dropped.
C10_FailedNestedLeavesField ==
    /\ (ev.op = "returnErr" /\ status = "running") =>
          /\ ev.after = ev.before
          /\ TopFrame.rec[ev.idx] = ev.before
          /\ TopFrame.i = ev.idx
    /\ (status = "err" /\ Decoding /\ raised.set /\ raised.path # <<>>) =>
          dest[FailPos] = pre[FailPos]

\* The nested call failed after filling part of its fresh struct, and the
\* pointer field it was made for still holds the struct of an earlier
\* decode.
C10_Witness ==
    /\ status = "err"
    /\ raised.set
    /\ raised.path # <<>>
    /\ Fields(typ)[FailPos].kind = "ptr"
    /\ ~pre[FailPos].nil
    /\ dest[FailPos] = pre[FailPos]

\* A struct field's nested call failed after filling part of its fresh
\* struct.
C10_WitnessByValue ==
    /\ status = "running"
    /\ ev.op = "returnErr"
    /\ EvField.kind = "struct"
    /\ ev.child # ZeroRec(EvField.et)
    /\ ev.after = ev.before

====
